---- MODULE Spec2Model ----
(***************************************************************************)
(* devdash-mcp: the window directory, the window resolver, the image       *)
(* capture pipeline and the explorer bridge, as one state machine.  A tool *)
(* invocation runs from "idle" to "done"; every external command and every *)
(* network call is one step whose outcome the environment chooses.         *)
(*                                                                         *)
(* Representation.  A float parameter is an integer number of thousandths  *)
(* (1.0 is 1000); an optional float is <<>> (None) or <<x>>.  A string that *)
(* is compared or searched is a sequence of one-character strings.  Image  *)
(* bytes are a record: the utility that produced them, the window, and the *)
(* transforms applied to them so far, in order.                            *)
(***************************************************************************)
EXTENDS Integers, Sequences, FiniteSets, TLC

VARIABLES pc, tool, args, cap, dir, resolved, data, ret, tmp, leaked, result, trace,
          conn, request, listing, config, procs, local

vars == <<pc, tool, args, cap, dir, resolved, data, ret, tmp, leaked, result, trace,
          conn, request, listing, config, procs, local>>

\* The configuration, the processes of the machine, and the locals of the
\* process tools: what the capture, bridge and telemetry tools leave alone.
procvars == <<config, procs, local>>

\* ------------------------------------------------------------------ bounds

\* The longest listing (lines of wmctrl or xwininfo output) the model draws.
MaxWindows == 2

\* Temporary files left on disk by earlier calls, after which no new call starts.
MaxTmp == 2

\* Process ids the machine hands out to explorer processes.
MaxPids == 3

\* ------------------------------------------------------------------ strings

\* str.lower() on the characters the model's titles and queries use.
LowerChar(c) ==
    CASE c = "Q" -> "q"
      [] c = "M" -> "m"
      [] c = "L" -> "l"
      [] OTHER -> c

Lower(s) == [i \in 1..Len(s) |-> LowerChar(s[i])]

\* A plausible slip: the empty needle found nowhere.
Contains_NonEmptyNeedle(needle, hay) ==
    /\ needle # <<>>
    /\ \E i \in 1..Len(hay) :
          /\ i + Len(needle) - 1 <= Len(hay)
          /\ \A k \in 1..Len(needle) : hay[i + k - 1] = needle[k]

\* Python's `needle in hay` on strings (the empty needle is in every string).
Contains(needle, hay) ==
    \E i \in 0..(Len(hay) - Len(needle)) : SubSeq(hay, i + 1, i + Len(needle)) = needle

Min(S) == CHOOSE x \in S : \A y \in S : x <= y

Max2(a, b) == IF a >= b THEN a ELSE b

Min2(a, b) == IF a <= b THEN a ELSE b

\* Window titles and queries the environment and the caller draw from.
Titles == { <<"q", "m", "l">>, <<"Q", "M", "L">>, <<"x", "q", "m", "l">> }

Queries == { <<>>, <<"q", "m", "l">>, <<"Q", "m", "l">>, <<"k">> }

\* ------------------------------------------------------------------ values

NoneId == <<>>

WinId(i) == <<"0x", i>>

NoneImg == [src |-> "none", win |-> NoneId, ops |-> <<>>]

\* b"": what read_bytes returns for the file NamedTemporaryFile created
\* and nothing wrote to.
EmptyBytes == [src |-> "empty", win |-> NoneId, ops |-> <<>>]

RawImage(src, win) == [src |-> src, win |-> win, ops |-> <<>>]

\* One run of an external command (or one connection attempt).
Inv(cmd, step, input, status) ==
    [cmd |-> cmd, step |-> step, input |-> input, status |-> status]

\* A tool's result.  kind "error": a mapping with an "error" key, `error` naming
\* the failure and `detail` what the message lists; "text": a TextContent whose
\* text is the message; "raise": the invocation ended by raising `exc`.
Res(kind, error, image, window_id, window, exc, detail) ==
    [kind |-> kind, error |-> error, image |-> image,
     window_id |-> window_id, window |-> window, exc |-> exc, detail |-> detail]

NoRes == Res("none", "", NoneImg, NoneId, <<>>, "", <<>>)

\* A field a mapping does not have.
Absent == <<>>

\* JSON values, tagged by type: strings, false, 0 and null.
JStr(x) == <<"str", x>>

JNull == <<"null">>

JFalse == <<"bool", "false">>

JZero == <<"int", "0">>

\* The request mapping handed to json.dumps.
Req(action, page, name, value) == [action |-> action, page |-> page, name |-> name, value |-> value]

NoReq == Req("", "", Absent, Absent)

NoArgs == [window |-> <<>>, scale |-> 1000, crop_center |-> <<>>, page |-> "", name |-> Absent, value |-> Absent]

NoCap == [window_id |-> NoneId, scale |-> 1000, crop_center |-> <<>>, crop_left |-> <<>>]

\* config.py: qml_gauges_path is "" unless DEVDASH_QML_GAUGES_PATH is set.
DefaultConfig == [qml_gauges_path |-> ""]

Configs == {DefaultConfig, [qml_gauges_path |-> "/qml-gauges"]}

\* A process id: not handed out yet, or an explorer process (one whose command
\* line contains "qml-gauges-explorer") started by the launch tool ("tool") or
\* by someone else ("other"), running or exited.
Proc(owner, alive) == [owner |-> owner, alive |-> alive]

NoProcs == [p \in 1..MaxPids |-> Proc("free", FALSE)]

\* The locals of qml_explorer_launch and qml_explorer_kill: the pids listed,
\* the position of the loop, the count, and the pid of the process started.
Local(pids, i, killed, pid) == [pids |-> pids, i |-> i, killed |-> killed, pid |-> pid]

NoLocal == Local(<<>>, 1, 0, 0)

\* ------------------------------------------------------------------ window directory

Statuses == {"ok", "fail", "missing"}

\* _run_command: a missing executable is reported as return code 1.
ReturnCode(st) == IF st = "ok" THEN 0 ELSE 1

\* A line of listing output.  shape "ok": eight fields with numeric geometry
\* (wmctrl) or a match of the pattern (xwininfo); "short": fewer than eight
\* fields; "badint": eight fields, a geometry field that int() rejects.
LineAt(i, t, shape) == [id |-> WinId(i), title |-> t, w |-> 200, h |-> 200, shape |-> shape]

LineChoices(i) ==
    {LineAt(i, t, "ok") : t \in Titles}
        \cup {LineAt(i, <<"x", "q", "m", "l">>, "short"), LineAt(i, <<"q", "m", "l">>, "badint")}

LinesOfLen(n) == {f \in [1..n -> UNION {LineChoices(i) : i \in 1..n}] : \A i \in 1..n : f[i] \in LineChoices(i)}

AllLines == UNION {LinesOfLen(n) : n \in 0..MaxWindows}

\* What the two listing commands do in one call of the directory.
Listings ==
    {[wm |-> "ok", xw |-> "ok", lines |-> l] : l \in AllLines}
        \cup {[wm |-> w, xw |-> "ok", lines |-> l] : w \in {"fail", "missing"}, l \in AllLines}
        \cup {[wm |-> w, xw |-> x, lines |-> <<>>] : w \in {"fail", "missing"}, x \in {"fail", "missing"}}

MinSize == 100

\* Listings whose lines differ in size as well: below, at and above the
\* threshold of the xwininfo loop.
Sizes == { <<50, 200>>, <<200, 100>>, <<101, 101>> }

SizedLineChoices(i) ==
    {[id |-> WinId(i), title |-> t, w |-> sz[1], h |-> sz[2], shape |-> "ok"] :
        t \in Titles, sz \in Sizes}
        \cup {LineAt(i, <<"x", "q", "m", "l">>, "short"), LineAt(i, <<"q", "m", "l">>, "badint")}

SizedLinesOfLen(n) ==
    {f \in [1..n -> UNION {SizedLineChoices(i) : i \in 1..n}] :
        \A i \in 1..n : f[i] \in SizedLineChoices(i)}

SizedListings ==
    LET AllSized == UNION {SizedLinesOfLen(n) : n \in 0..MaxWindows}
    IN  {[wm |-> w, xw |-> "ok", lines |-> l] : w \in Statuses, l \in AllSized}
            \cup {[wm |-> w, xw |-> x, lines |-> <<>>] :
                      w \in {"fail", "missing"}, x \in {"fail", "missing"}}

NoListing == [wm |-> "none", xw |-> "none", lines |-> <<>>]

\* The wmctrl loop: a line of fewer than eight fields is skipped.
WmctrlWindows(lines) ==
    LET Good(l) == l.shape # "short"
        Conv(l) == [id |-> l.id, title |-> l.title, width |-> l.w, height |-> l.h, xy |-> TRUE]
        kept == SelectSeq(lines, Good)
    IN  [i \in 1..Len(kept) |-> Conv(kept[i])]

\* int(parts[k]) raises ValueError on a line of eight fields with a bad number.
WmctrlRaises(lines) == \E i \in 1..Len(lines) : lines[i].shape = "badint"

\* A plausible slip: the threshold itself let through.
XwininfoWindows_Inclusive(lines) ==
    LET Good(l) == l.shape = "ok" /\ l.w >= MinSize /\ l.h >= MinSize
        Conv(l) == [id |-> l.id, title |-> l.title, width |-> l.w, height |-> l.h, xy |-> FALSE]
        kept == SelectSeq(lines, Good)
    IN  [i \in 1..Len(kept) |-> Conv(kept[i])]

\* The xwininfo loop: the pattern must match, and trivial windows are skipped.
XwininfoWindows(lines) ==
    LET Good(l) == l.shape = "ok" /\ l.w > MinSize /\ l.h > MinSize
        Conv(l) == [id |-> l.id, title |-> l.title, width |-> l.w, height |-> l.h, xy |-> FALSE]
        kept == SelectSeq(lines, Good)
    IN  [i \in 1..Len(kept) |-> Conv(kept[i])]

ListOut(raised, windows, cmds) == [raised |-> raised, windows |-> windows, cmds |-> cmds]

\* screenshot.py _list_x11_windows
ListX11Windows(ls) ==
    IF ReturnCode(ls.wm) = 0
    THEN ListOut(WmctrlRaises(ls.lines),
                 IF WmctrlRaises(ls.lines) THEN <<>> ELSE WmctrlWindows(ls.lines),
                 <<Inv("wmctrl", "", NoneImg, ls.wm)>>)
    ELSE IF ReturnCode(ls.xw) # 0
    THEN ListOut(FALSE, <<>>,
                 <<Inv("wmctrl", "", NoneImg, ls.wm), Inv("xwininfo", "", NoneImg, ls.xw)>>)
    ELSE ListOut(FALSE, XwininfoWindows(ls.lines),
                 <<Inv("wmctrl", "", NoneImg, ls.wm), Inv("xwininfo", "", NoneImg, ls.xw)>>)

\* server.py's xwininfo loop, lines 194-210.
\* A plausible slip of a copy: the height left out of the test.
SrvXwininfoWindows_WidthOnly(lines) ==
    LET matched == SelectSeq(lines, LAMBDA l : l.shape = "ok")
        big == SelectSeq(matched, LAMBDA l : l.w > 100)
    IN  [i \in 1..Len(big) |->
            [id |-> big[i].id, title |-> big[i].title, width |-> big[i].w, height |-> big[i].h, xy |-> FALSE]]

SrvXwininfoWindows(lines) ==
    LET matched == SelectSeq(lines, LAMBDA l : l.shape = "ok")
        big == SelectSeq(matched, LAMBDA l : l.w > 100 /\ l.h > 100)
    IN  [i \in 1..Len(big) |->
            [id |-> big[i].id, title |-> big[i].title, width |-> big[i].w, height |-> big[i].h, xy |-> FALSE]]

\* server.py's wmctrl loop, lines 214-233: lines of eight fields are kept.
SrvWmctrlWindows(lines) ==
    LET parts8 == SelectSeq(lines, LAMBDA l : l.shape \in {"ok", "badint"})
    IN  [i \in 1..Len(parts8) |->
            [id |-> parts8[i].id, title |-> parts8[i].title, width |-> parts8[i].w, height |-> parts8[i].h, xy |-> TRUE]]

\* lines 220-223: int() raises ValueError on the first kept line with a bad number.
SrvWmctrlRaises(lines) ==
    LET parts8 == SelectSeq(lines, LAMBDA l : l.shape \in {"ok", "badint"})
    IN  \E i \in 1..Len(parts8) : parts8[i].shape = "badint"

\* qmlgauges_mcp/server.py list_x11_windows
list_x11_windows(ls) ==
    IF ReturnCode(ls.wm) # 0
    THEN IF ReturnCode(ls.xw) # 0
         THEN ListOut(FALSE, <<>>,
                      <<Inv("wmctrl", "", NoneImg, ls.wm), Inv("xwininfo", "", NoneImg, ls.xw)>>)
         ELSE ListOut(FALSE, SrvXwininfoWindows(ls.lines),
                      <<Inv("wmctrl", "", NoneImg, ls.wm), Inv("xwininfo", "", NoneImg, ls.xw)>>)
    ELSE ListOut(SrvWmctrlRaises(ls.lines),
                 IF SrvWmctrlRaises(ls.lines) THEN <<>> ELSE SrvWmctrlWindows(ls.lines),
                 <<Inv("wmctrl", "", NoneImg, ls.wm)>>)

\* ------------------------------------------------------------------ window resolver

ExactMatches(windows, name_lower) ==
    {i \in 1..Len(windows) : Lower(windows[i].title) = name_lower}

SubstringMatches(windows, name_lower) ==
    {i \in 1..Len(windows) : Contains(name_lower, Lower(windows[i].title))}

\* A plausible slip: the substring pass alone.
MatchWindow_SubstringOnly(windows, name) ==
    LET name_lower == Lower(name)
    IN  IF SubstringMatches(windows, name_lower) # {}
        THEN windows[Min(SubstringMatches(windows, name_lower))].id
        ELSE NoneId

\* A plausible slip: each pass keeps the last window that matches.
MatchWindow_LastMatch(windows, name) ==
    LET name_lower == Lower(name)
        Last(S) == CHOOSE x \in S : \A y \in S : x >= y
    IN  IF ExactMatches(windows, name_lower) # {}
        THEN windows[Last(ExactMatches(windows, name_lower))].id
        ELSE IF SubstringMatches(windows, name_lower) # {}
        THEN windows[Last(SubstringMatches(windows, name_lower))].id
        ELSE NoneId

\* The two passes of _find_window_by_name / find_window_by_name over a directory.
MatchWindow(windows, name) ==
    LET name_lower == Lower(name)
    IN  IF ExactMatches(windows, name_lower) # {}
        THEN windows[Min(ExactMatches(windows, name_lower))].id
        ELSE IF SubstringMatches(windows, name_lower) # {}
        THEN windows[Min(SubstringMatches(windows, name_lower))].id
        ELSE NoneId

ResolveOut(raised, id, windows, cmds) ==
    [raised |-> raised, id |-> id, windows |-> windows, cmds |-> cmds]

\* screenshot.py _find_window_by_name: the directory is queried, then matched.
FindWindowByName(name, ls) ==
    LET l == ListX11Windows(ls)
    IN  ResolveOut(l.raised, IF l.raised THEN NoneId ELSE MatchWindow(l.windows, name),
                   l.windows, l.cmds)

\* qmlgauges_mcp/server.py find_window_by_name
find_window_by_name(name, ls) ==
    LET l == list_x11_windows(ls)
        windows == l.windows
        name_lower == Lower(name)
        exact == {i \in 1..Len(windows) : Lower(windows[i].title) = name_lower}
        sub == {i \in 1..Len(windows) : Contains(name_lower, Lower(windows[i].title))}
    IN  ResolveOut(l.raised,
                   IF l.raised THEN NoneId
                   ELSE IF exact # {} THEN windows[Min(exact)].id
                   ELSE IF sub # {} THEN windows[Min(sub)].id
                   ELSE NoneId,
                   windows, l.cmds)

\* `not window_id`, `not window_name`: None and the empty string are falsy.
Falsy(s) == s = <<>>

\* DEVDASH_KEYWORDS, and the shorter list call_tool filters with.
DEVDASH_KEYWORDS ==
    { <<"g", "a", "u", "g", "e">>, <<"e", "x", "p", "l", "o", "r", "e", "r">>,
      <<"d", "e", "v", "d", "a", "s", "h">>, <<"q", "m", "l">>,
      <<"c", "l", "u", "s", "t", "e", "r">>, <<"h", "e", "a", "d", "u", "n", "i", "t">> }

QML_KEYWORDS ==
    { <<"g", "a", "u", "g", "e">>, <<"e", "x", "p", "l", "o", "r", "e", "r">>,
      <<"d", "e", "v", "d", "a", "s", "h">>, <<"q", "m", "l">> }

TitlesOf(ws) == [i \in 1..Len(ws) |-> ws[i].title]

FilterWindows(windows, keywords) ==
    LET Keep(w) == \E kw \in keywords : Contains(kw, Lower(w.title))
    IN  SelectSeq(windows, Keep)

\* ------------------------------------------------------------------ capture pipeline

\* int(x * 100), x in thousandths.
IntPercent(x) == (x * 100) \div 1000

\* A plausible slip: one percentage for both axes of a crop.
CropOp_Square(gravity, wpct, hpct) == [kind |-> "crop", gravity |-> gravity, wpct |-> wpct, hpct |-> wpct]

\* `-gravity {gravity} -crop {wpct}%x{hpct}%+0+0`
CropOp(gravity, wpct, hpct) == [kind |-> "crop", gravity |-> gravity, wpct |-> wpct, hpct |-> hpct]

ResizeOp(pct) == [kind |-> "resize", gravity |-> "", wpct |-> pct, hpct |-> pct]

\* What `convert` writes to stdout when it exits 0: its input, transformed.
Convert(img, op) == [img EXCEPT !.ops = Append(@, op)]

\* `crop_left is not None and crop_left < 1.0`
LeftCropRequested(crop_left) == crop_left # <<>> /\ crop_left[1] < 1000

\* `crop_center is not None and crop_center < 1.0`
CenterCropRequested(crop_center) == crop_center # <<>> /\ crop_center[1] < 1000

\* A plausible slip: the identity scale is resized too.
ScaleRequested_Inclusive(scale) == scale <= 1000

\* `scale < 1.0`
ScaleRequested(scale) == scale < 1000

\* `not screenshot_data`: None and b"" are falsy.
NoData(d) == d = NoneImg \/ d = EmptyBytes

\* screenshot_capture's clamping of its arguments.
\* A plausible slip: the upper bound alone.
ClampScale_NoFloor(scale) == Min2(1000, scale)

ClampScale(scale) == Max2(300, Min2(1000, scale))

ClampCrop(crop_center) ==
    IF crop_center = <<>> THEN <<>> ELSE << Max2(100, Min2(1000, crop_center[1])) >>

Raise(exc) == Res("raise", "", NoneImg, NoneId, <<>>, exc, <<>>)

\* Inputs below, inside, on and above the ranges of the clamps.
ScaleInputs == {200, 500, 1000, 1500}

CropInputs == { <<>>, <<50>>, <<500>>, <<1500>> }

\* Crops the pipeline itself may be handed: none, a real crop, the identity.
CropLeftInputs == { <<>>, <<600>>, <<1000>> }

FastTools == {"screenshot_capture", "screenshot_gauge_preview"}

PipelineTools == FastTools \cup {"_capture_window"}

\* ------------------------------------------------------------------ tool invocations

Init ==
    /\ pc = "idle"
    /\ tool = ""
    /\ args = NoArgs
    /\ cap = NoCap
    /\ dir = <<>>
    /\ resolved = NoneId
    /\ data = NoneImg
    /\ ret = NoneImg
    /\ tmp = "none"
    /\ leaked = 0
    /\ result = NoRes
    /\ trace = <<>>
    /\ conn = "none"
    /\ request = NoReq
    /\ listing = NoListing
    /\ config = DefaultConfig
    /\ procs = NoProcs
    /\ local = NoLocal

CanStart == pc = "idle" /\ leaked < MaxTmp

Begin(t, a, c, next) ==
    /\ tool' = t
    /\ args' = a
    /\ cap' = c
    /\ pc' = next
    /\ UNCHANGED <<dir, resolved, data, ret, tmp, leaked, result, trace, conn, request, listing>>

\* The invocation ends: with a result, or by raising.
End(r) ==
    /\ pc' = "done"
    /\ result' = r

\* screenshot_capture(window, scale, crop_center): clamp, then _internal_capture.
StartScreenshotCapture ==
    /\ CanStart
    /\ \E window \in Queries, scale \in ScaleInputs, crop_center \in CropInputs :
          Begin("screenshot_capture",
                [window |-> window, scale |-> scale, crop_center |-> crop_center, page |-> "", name |-> Absent, value |-> Absent],
                [window_id |-> NoneId, scale |-> ClampScale(scale),
                 crop_center |-> ClampCrop(crop_center), crop_left |-> <<>>],
                "resolve")
    /\ UNCHANGED procvars

\* screenshot_gauge_preview(window): fixed scale and crops.
StartScreenshotGaugePreview ==
    /\ CanStart
    /\ \E window \in Queries :
          Begin("screenshot_gauge_preview",
                [window |-> window, scale |-> 500, crop_center |-> <<800>>, page |-> "", name |-> Absent, value |-> Absent],
                [window_id |-> NoneId, scale |-> 500, crop_center |-> <<800>>,
                 crop_left |-> <<600>>],
                "resolve")
    /\ UNCHANGED procvars

\* A direct call of _capture_window(window_id, scale, crop_center, crop_left).
StartCaptureWindow ==
    /\ CanStart
    /\ \E scale \in {500, 1000}, crop_center \in CropLeftInputs, crop_left \in CropLeftInputs :
          Begin("_capture_window",
                [window |-> <<>>, scale |-> scale, crop_center |-> crop_center, page |-> "", name |-> Absent, value |-> Absent],
                [window_id |-> WinId(1), scale |-> scale, crop_center |-> crop_center,
                 crop_left |-> crop_left],
                "import")
    /\ UNCHANGED procvars

\* _internal_capture, lines 220-222: window_id = _find_window_by_name(window),
\* then the `if not window_id` branch.
Resolve ==
    /\ pc = "resolve"
    /\ tool \in FastTools
    /\ \E ls \in Listings :
          LET f == FindWindowByName(args.window, ls)
          IN  /\ trace' = trace \o f.cmds
              /\ dir' = f.windows
              /\ resolved' = f.id
              /\ cap' = [cap EXCEPT !.window_id = f.id]
              /\ IF f.raised
                 THEN End(Raise("ValueError"))
                 ELSE /\ pc' = IF Falsy(f.id) THEN "notfound" ELSE "import"
                      /\ UNCHANGED result
    /\ UNCHANGED <<tool, args, data, ret, tmp, leaked, conn, request, listing>>
    /\ UNCHANGED procvars

\* _internal_capture, lines 222-232: the directory is listed again for the message.
NotFound ==
    /\ pc = "notfound"
    /\ tool \in FastTools
    /\ \E ls \in Listings :
          LET l == ListX11Windows(ls)
          IN  /\ trace' = trace \o l.cmds
              /\ IF l.raised
                 THEN End(Raise("ValueError"))
                 ELSE End(Res("error", "NotFound", NoneImg, NoneId, args.window, "",
                              TitlesOf(FilterWindows(l.windows, DEVDASH_KEYWORDS))))
    /\ UNCHANGED <<tool, args, cap, dir, resolved, data, ret, tmp, leaked, conn, request, listing>>
    /\ UNCHANGED procvars

\* _capture_window, lines 108-115: `import -window <id> png:-`.
Import ==
    /\ pc = "import"
    /\ tool \in PipelineTools
    /\ \E st \in Statuses :
          /\ trace' = Append(trace, Inv("import", "", NoneImg, st))
          /\ IF st = "missing"
             THEN End(Raise("FileNotFoundError")) /\ UNCHANGED data
             ELSE IF st = "ok"
             THEN pc' = "left" /\ data' = RawImage("import", cap.window_id) /\ UNCHANGED result
             ELSE pc' = "mktemp" /\ UNCHANGED <<data, result>>
    /\ UNCHANGED <<tool, args, cap, dir, resolved, ret, tmp, leaked, conn, request, listing>>
    /\ UNCHANGED procvars

\* One transform step of _capture_window: run convert on the current bytes
\* when the step is requested; keep its output only when it exits 0.
Transform(requested, step, op, next) ==
    /\ IF requested
       THEN \E st \in Statuses :
               /\ trace' = Append(trace, Inv("convert", step, data, st))
               /\ IF st = "missing"
                  THEN End(Raise("FileNotFoundError")) /\ UNCHANGED data
                  ELSE /\ pc' = next
                       /\ data' = IF st = "ok" THEN Convert(data, op) ELSE data
                       /\ UNCHANGED result
       ELSE pc' = next /\ UNCHANGED <<data, result, trace>>
    /\ UNCHANGED <<tool, args, cap, dir, resolved, ret, tmp, leaked, conn, request, listing>>

\* lines 117-133
LeftCrop ==
    /\ pc = "left"
    /\ Transform(LeftCropRequested(cap.crop_left), "left",
                 CropOp("West", IF cap.crop_left = <<>> THEN 100 ELSE IntPercent(cap.crop_left[1]), 100),
                 "center")
    /\ UNCHANGED procvars

\* lines 135-151
CenterCrop ==
    /\ pc = "center"
    /\ LET p == IF cap.crop_center = <<>> THEN 100 ELSE IntPercent(cap.crop_center[1])
       IN  Transform(CenterCropRequested(cap.crop_center), "center", CropOp("center", p, p), "scale")
    /\ UNCHANGED procvars

\* lines 153-165: the resized bytes, or the bytes so far, are returned.
Scale ==
    /\ pc = "scale"
    /\ IF ScaleRequested(cap.scale)
       THEN \E st \in Statuses :
               /\ trace' = Append(trace, Inv("convert", "scale", data, st))
               /\ IF st = "missing"
                  THEN End(Raise("FileNotFoundError")) /\ UNCHANGED ret
                  ELSE /\ pc' = "captured"
                       /\ ret' = IF st = "ok" THEN Convert(data, ResizeOp(IntPercent(cap.scale))) ELSE data
                       /\ UNCHANGED result
       ELSE pc' = "captured" /\ ret' = data /\ UNCHANGED <<result, trace>>
    /\ UNCHANGED <<tool, args, cap, dir, resolved, data, tmp, leaked, conn, request, listing>>
    /\ UNCHANGED procvars

\* lines 168-169: NamedTemporaryFile(delete=False) creates an empty file.
Mktemp ==
    /\ pc = "mktemp"
    /\ tool \in PipelineTools
    /\ tmp' = "empty"
    /\ pc' = "scrot"
    /\ UNCHANGED <<tool, args, cap, dir, resolved, data, ret, leaked, result, trace, conn, request, listing>>
    /\ UNCHANGED procvars

ScrotOutcomes == {"wrote", "untouched", "removed", "missing"}

\* What scrot leaves at tmp_path.
AfterScrot(st, before) ==
    CASE st = "wrote" -> "image"
      [] st = "removed" -> "removed"
      [] OTHER -> before

\* line 171: `scrot -u -o tmp_path`; its exit status is not looked at.
Scrot ==
    /\ pc = "scrot"
    /\ tool \in PipelineTools
    /\ \E st \in ScrotOutcomes :
          /\ trace' = Append(trace, Inv("scrot", "", NoneImg, st))
          /\ tmp' = AfterScrot(st, tmp)
          /\ IF st = "missing"
             THEN End(Raise("FileNotFoundError"))
             ELSE pc' = "read" /\ UNCHANGED result
    /\ UNCHANGED <<tool, args, cap, dir, resolved, data, ret, leaked, conn, request, listing>>
    /\ UNCHANGED procvars

FileBytes(t) == IF t = "image" THEN RawImage("scrot", <<"focused">>) ELSE EmptyBytes

\* lines 173-179: read and unlink the file when it exists.
ReadTmp ==
    /\ pc = "read"
    /\ tool \in PipelineTools
    /\ IF tmp = "removed"
       THEN pc' = "captured" /\ ret' = NoneImg /\ UNCHANGED <<tmp, result>>
       ELSE \E readOk \in BOOLEAN :
               IF readOk
               THEN pc' = "captured" /\ ret' = FileBytes(tmp) /\ tmp' = "unlinked" /\ UNCHANGED result
               ELSE End(Raise("OSError")) /\ UNCHANGED <<ret, tmp>>
    /\ UNCHANGED <<tool, args, cap, dir, resolved, data, leaked, trace, conn, request, listing>>
    /\ UNCHANGED procvars

\* _internal_capture, lines 241-253, and the tool's `"error" in result`.
Finish ==
    /\ pc = "captured"
    /\ tool \in FastTools
    /\ IF NoData(ret)
       THEN End(Res("error", "CaptureFailed", NoneImg, cap.window_id, args.window, "", <<>>))
       ELSE End(Res("image", "", ret, cap.window_id, args.window, "", <<>>))
    /\ UNCHANGED <<tool, args, cap, dir, resolved, data, ret, tmp, leaked, trace, conn, request, listing>>
    /\ UNCHANGED procvars

\* _capture_window returns to its caller.
ReturnBytes ==
    /\ pc = "captured"
    /\ tool = "_capture_window"
    /\ End(Res(IF ret = NoneImg THEN "none" ELSE "bytes", "", ret, cap.window_id, <<>>, "", <<>>))
    /\ UNCHANGED <<tool, args, cap, dir, resolved, data, ret, tmp, leaked, trace, conn, request, listing>>
    /\ UNCHANGED procvars

\* ------------------------------------------------------------------ qmlgauges_mcp/server.py

Text(error, window_id, window, detail) == Res("text", error, NoneImg, window_id, window, "", detail)

\* call_tool, qmlgauges_screenshot, lines 316-324: the window argument is required.
StartQmlgaugesScreenshot ==
    /\ CanStart
    /\ \E window \in Queries :
          /\ tool' = "qmlgauges_screenshot"
          /\ args' = [window |-> window, scale |-> 1000, crop_center |-> <<>>, page |-> "", name |-> Absent, value |-> Absent]
          /\ IF Falsy(window)
             THEN End(Text("MissingParameter", NoneId, window, <<>>))
             ELSE pc' = "s_resolve" /\ UNCHANGED result
    /\ UNCHANGED <<cap, dir, resolved, data, ret, tmp, leaked, trace, conn, request, listing>>
    /\ UNCHANGED procvars

\* line 327: window_id = find_window_by_name(window_name); a ValueError of
\* the listing is caught by call_tool's `except Exception`.
SrvResolve ==
    /\ pc = "s_resolve"
    /\ \E ls \in Listings :
          LET f == find_window_by_name(args.window, ls)
          IN  /\ trace' = trace \o f.cmds
              /\ dir' = f.windows
              /\ resolved' = f.id
              /\ cap' = [cap EXCEPT !.window_id = f.id]
              /\ IF f.raised
                 THEN End(Text("Exception", NoneId, args.window, <<>>))
                 ELSE /\ pc' = IF Falsy(f.id) THEN "s_notfound" ELSE "s_import"
                      /\ UNCHANGED result
    /\ UNCHANGED <<tool, args, data, ret, tmp, leaked, conn, request, listing>>
    /\ UNCHANGED procvars

\* lines 328-343
SrvNotFound ==
    /\ pc = "s_notfound"
    /\ \E ls \in Listings :
          LET l == list_x11_windows(ls)
          IN  /\ trace' = trace \o l.cmds
              /\ IF l.raised
                 THEN End(Text("Exception", NoneId, args.window, <<>>))
                 ELSE End(Text("NotFound", NoneId, args.window,
                               TitlesOf(FilterWindows(l.windows, QML_KEYWORDS))))
    /\ UNCHANGED <<tool, args, cap, dir, resolved, data, ret, tmp, leaked, conn, request, listing>>
    /\ UNCHANGED procvars

\* capture_window_screenshot, lines 258-266 and 288-290: a missing `import`
\* is caught and None is returned.
SrvImport ==
    /\ pc = "s_import"
    /\ \E st \in Statuses :
          /\ trace' = Append(trace, Inv("import", "", NoneImg, st))
          /\ IF st = "missing"
             THEN pc' = "s_captured" /\ ret' = NoneImg
             ELSE IF st = "ok"
             THEN pc' = "s_captured" /\ ret' = RawImage("import", cap.window_id)
             ELSE pc' = "s_mktemp" /\ UNCHANGED ret
    /\ UNCHANGED <<tool, args, cap, dir, resolved, data, tmp, leaked, result, conn, request, listing>>
    /\ UNCHANGED procvars

\* lines 271-273
SrvMktemp ==
    /\ pc = "s_mktemp"
    /\ tmp' = "empty"
    /\ pc' = "s_scrot"
    /\ UNCHANGED <<tool, args, cap, dir, resolved, data, ret, leaked, result, trace, conn, request, listing>>
    /\ UNCHANGED procvars

\* lines 275-278: a missing `scrot` is caught at line 289 and None is returned.
SrvScrot ==
    /\ pc = "s_scrot"
    /\ \E st \in ScrotOutcomes :
          /\ trace' = Append(trace, Inv("scrot", "", NoneImg, st))
          /\ tmp' = AfterScrot(st, tmp)
          /\ IF st = "missing"
             THEN pc' = "s_captured" /\ ret' = NoneImg
             ELSE pc' = "s_read" /\ UNCHANGED ret
    /\ UNCHANGED <<tool, args, cap, dir, resolved, data, leaked, result, conn, request, listing>>
    /\ UNCHANGED procvars

\* lines 281-286; a failed read is caught by call_tool's `except Exception`.
SrvReadTmp ==
    /\ pc = "s_read"
    /\ IF tmp = "removed"
       THEN pc' = "s_captured" /\ ret' = NoneImg /\ UNCHANGED <<tmp, result>>
       ELSE \E readOk \in BOOLEAN :
               IF readOk
               THEN pc' = "s_captured" /\ ret' = FileBytes(tmp) /\ tmp' = "unlinked" /\ UNCHANGED result
               ELSE End(Text("Exception", cap.window_id, args.window, <<>>)) /\ UNCHANGED <<ret, tmp>>
    /\ UNCHANGED <<tool, args, cap, dir, resolved, data, leaked, trace, conn, request, listing>>
    /\ UNCHANGED procvars

\* call_tool, lines 346-365
SrvFinish ==
    /\ pc = "s_captured"
    /\ IF NoData(ret)
       THEN End(Text("CaptureFailed", cap.window_id, args.window, <<>>))
       ELSE End(Res("imagecontent", "", ret, cap.window_id, args.window, "", <<>>))
    /\ UNCHANGED <<tool, args, cap, dir, resolved, data, ret, tmp, leaked, trace, conn, request, listing>>
    /\ UNCHANGED procvars

\* ------------------------------------------------------------------ explorer bridge

EXPLORER_PAGES ==
    << "Welcome", "GaugeArc", "GaugeBezel", "GaugeCenterCap", "GaugeFace", "GaugeTick",
       "GaugeTickLabel", "Bezel3D", "CenterCap3D", "DigitalReadout", "GaugeNeedle",
       "GaugeTickRing", "GaugeValueArc", "GaugeZoneArc", "RollingDigitReadout",
       "RadialGauge", "RadialGauge3D" >>

\* The enum of qmlgauges_navigate's input schema (list_tools).
NAVIGATE_ENUM ==
    << "Welcome", "GaugeArc", "GaugeBezel", "GaugeCenterCap", "GaugeFace", "GaugeTick",
       "GaugeTickLabel", "DigitalReadout", "GaugeNeedle", "GaugeTickRing", "GaugeValueArc",
       "GaugeZoneArc", "RollingDigitReadout", "RadialGauge" >>

InList(x, list) == \E i \in 1..Len(list) : list[i] = x

\* Page names a caller may pass: the allow-list, a name outside it, the empty name.
PageInputs == {EXPLORER_PAGES[i] : i \in 1..Len(EXPLORER_PAGES)} \cup {"NotARealPage", ""}

\* The tools of explorer.py that go through _send_request.
FastExplorerTools ==
    {"qml_explorer_get_state", "qml_explorer_navigate", "qml_explorer_get_property",
     "qml_explorer_set_property", "qml_explorer_list_properties"}

\* The branches of call_tool that go through send_state_request.
SrvStateTools ==
    {"qmlgauges_get_state", "qmlgauges_navigate", "qmlgauges_get_property",
     "qmlgauges_set_property", "qmlgauges_list_properties"}

\* qml_explorer_status makes its own exchange (lines 109-117).
StatusTools == {"qml_explorer_status"}

\* Property names and values a caller may pass; call_tool reads them with
\* arguments.get, which gives None for a missing key.
NameInputs == {JStr("tickShape"), JStr("")}

SrvNameInputs == NameInputs \cup {JNull}

ValueInputs == {JStr("round"), JStr(""), JFalse, JZero, JNull}

\* Python truth of a JSON value.
PyFalsy(v) == v \in {JNull, JStr(""), JFalse, JZero}

\* The fields beside "error" of the mapping an except clause returns:
\* {"success": False, "error": ...}; a reply of the peer is passed on as it is.
FailureFields(error) == IF error = "" THEN <<>> ELSE <<"success", "False">>

\* The outcome of a bridge call in the shape its tool returns: call_tool wraps
\* the mapping in a TextContent.
BridgeResult(t, error) ==
    IF t \in StatusTools
    THEN Res("status", "", NoneImg, NoneId, <<>>, "",
             <<IF \E i \in 1..Len(trace) : trace[i].cmd = "pgrep" /\ trace[i].status = "ok"
               THEN "running" ELSE "not running",
               IF error = "" THEN "websocket_connected" ELSE "not connected">>)
    ELSE IF t \in SrvStateTools
    THEN Res("text", error, NoneImg, NoneId, <<>>, "", FailureFields(error))
    ELSE Res(IF error = "" THEN "reply" ELSE "error", error, NoneImg, NoneId, <<>>, "",
             FailureFields(error))

\* qml_explorer_navigate(page), lines 146-151: the page is checked, then sent.
StartQmlExplorerNavigate ==
    /\ CanStart
    /\ \E page \in PageInputs :
          /\ tool' = "qml_explorer_navigate"
          /\ args' = [window |-> <<>>, scale |-> 1000, crop_center |-> <<>>, page |-> page,
                     name |-> Absent, value |-> Absent]
          /\ IF ~InList(page, EXPLORER_PAGES)
             THEN /\ End(Res("error", "InvalidPage", NoneImg, NoneId, <<>>, "", EXPLORER_PAGES))
                  /\ UNCHANGED request
             ELSE /\ pc' = "ws_connect"
                  /\ request' = Req("navigate", page, Absent, Absent)
                  /\ UNCHANGED result
    /\ UNCHANGED <<cap, dir, resolved, data, ret, tmp, leaked, trace, conn, listing>>
    /\ UNCHANGED procvars

\* call_tool, qmlgauges_navigate, lines 377-393: only a missing page is refused.
StartQmlgaugesNavigate ==
    /\ CanStart
    /\ \E page \in PageInputs :
          /\ tool' = "qmlgauges_navigate"
          /\ args' = [window |-> <<>>, scale |-> 1000, crop_center |-> <<>>, page |-> page,
                     name |-> Absent, value |-> Absent]
          /\ IF page = ""
             THEN /\ End(Text("MissingParameter", NoneId, <<>>, <<>>))
                  /\ UNCHANGED request
             ELSE /\ pc' = "ws_connect"
                  /\ request' = Req("navigate", page, Absent, Absent)
                  /\ UNCHANGED result
    /\ UNCHANGED <<cap, dir, resolved, data, ret, tmp, leaked, trace, conn, listing>>
    /\ UNCHANGED procvars

\* A tool that sends its request with no local check.
StartRequest(t, a, req) ==
    /\ tool' = t
    /\ args' = a
    /\ request' = req
    /\ pc' = "ws_connect"
    /\ UNCHANGED <<cap, dir, resolved, data, ret, tmp, leaked, result, trace, conn, listing>>

\* A branch of call_tool that returns "Error: '<parameter>' parameter is required".
Refuse(t, a) ==
    /\ tool' = t
    /\ args' = a
    /\ End(Text("MissingParameter", NoneId, <<>>, <<>>))
    /\ UNCHANGED <<cap, dir, resolved, data, ret, tmp, leaked, trace, conn, request, listing>>

PropArgs(name, value) == [NoArgs EXCEPT !.name = name, !.value = value]

\* qml_explorer_get_state(), line 131.
StartQmlExplorerGetState ==
    /\ CanStart
    /\ StartRequest("qml_explorer_get_state", NoArgs, Req("getState", "", Absent, Absent))
    /\ UNCHANGED procvars

\* qml_explorer_get_property(name), line 163.
StartQmlExplorerGetProperty ==
    /\ CanStart
    /\ \E name \in NameInputs :
          StartRequest("qml_explorer_get_property", PropArgs(name, Absent),
                       Req("getProperty", "", name, Absent))
    /\ UNCHANGED procvars

\* qml_explorer_set_property(name, value), line 176.
StartQmlExplorerSetProperty ==
    /\ CanStart
    /\ \E name \in NameInputs, value \in ValueInputs :
          StartRequest("qml_explorer_set_property", PropArgs(name, value),
                       Req("setProperty", "", name, value))
    /\ UNCHANGED procvars

\* qml_explorer_list_properties(), line 188.
StartQmlExplorerListProperties ==
    /\ CanStart
    /\ StartRequest("qml_explorer_list_properties", NoArgs, Req("listProperties", "", Absent, Absent))
    /\ UNCHANGED procvars

\* qml_explorer_status(), lines 96-106: pgrep, whose failure to start is
\* swallowed; then the exchange of lines 109-117.
StartQmlExplorerStatus ==
    /\ CanStart
    /\ \E st \in Statuses :
          /\ tool' = "qml_explorer_status"
          /\ args' = NoArgs
          /\ request' = Req("getState", "", Absent, Absent)
          /\ trace' = <<Inv("pgrep", "", NoneImg, st)>>
          /\ pc' = "ws_connect"
    /\ UNCHANGED <<cap, dir, resolved, data, ret, tmp, leaked, result, conn, listing>>
    /\ UNCHANGED procvars

\* call_tool, qmlgauges_get_state, lines 368-375.
StartQmlgaugesGetState ==
    /\ CanStart
    /\ StartRequest("qmlgauges_get_state", NoArgs, Req("getState", "", Absent, Absent))
    /\ UNCHANGED procvars

\* call_tool, qmlgauges_get_property, lines 395-411: a falsy name is refused.
StartQmlgaugesGetProperty ==
    /\ CanStart
    /\ \E name \in SrvNameInputs :
          IF PyFalsy(name)
          THEN Refuse("qmlgauges_get_property", PropArgs(name, Absent))
          ELSE StartRequest("qmlgauges_get_property", PropArgs(name, Absent),
                            Req("getProperty", "", name, Absent))
    /\ UNCHANGED procvars

\* call_tool, qmlgauges_set_property, lines 413-443: a falsy name and a
\* value of None are refused.
StartQmlgaugesSetProperty ==
    /\ CanStart
    /\ \E name \in SrvNameInputs, value \in ValueInputs :
          IF PyFalsy(name) \/ value = JNull
          THEN Refuse("qmlgauges_set_property", PropArgs(name, value))
          ELSE StartRequest("qmlgauges_set_property", PropArgs(name, value),
                            Req("setProperty", "", name, value))
    /\ UNCHANGED procvars

\* call_tool, qmlgauges_list_properties, lines 445-452.
StartQmlgaugesListProperties ==
    /\ CanStart
    /\ StartRequest("qmlgauges_list_properties", NoArgs, Req("listProperties", "", Absent, Absent))
    /\ UNCHANGED procvars

\* The exception an outcome of a websocket step raises inside the `try`.
ExcOf(st) ==
    CASE st = "refused" -> "ConnectionRefusedError"
      [] st = "timeout" -> "TimeoutError"
      [] st = "badjson" -> "JSONDecodeError"
      [] st = "closed"  -> "ConnectionClosed"
      [] OTHER          -> "InvalidHandshake"

\* str(e) of the exceptions that reach `except Exception`.
StrOf(exc) ==
    CASE exc = "JSONDecodeError"  -> "Expecting value: line 1 column 1 (char 0)"
      [] exc = "ConnectionClosed" -> "no close frame received or sent"
      [] OTHER                    -> "server rejected WebSocket connection: HTTP 404"

\* A plausible slip: one handler for every OSError, so that a timeout is
\* reported as a refused connection.
ExceptMessage_OSErrorFirst(exc) ==
    CASE exc \in {"ConnectionRefusedError", "TimeoutError"} -> "CannotConnect"
      [] OTHER -> StrOf(exc)

\* The three except clauses of _send_request / send_state_request, in order.
ExceptMessage(exc) ==
    CASE exc = "ConnectionRefusedError" -> "CannotConnect"
      [] exc = "TimeoutError"           -> "Timeout"
      [] OTHER                          -> StrOf(exc)

ConnectOutcomes == {"nolib", "ok", "refused", "timeout", "error"}

\* _send_request / send_state_request: the library check, then ws_connect(url).
BridgeConnect(tools) ==
    /\ pc = "ws_connect"
    /\ tool \in tools
    /\ \E st \in ConnectOutcomes :
          IF st = "nolib"
          THEN End(BridgeResult(tool, "NoWebsockets")) /\ UNCHANGED <<trace, conn>>
          ELSE /\ trace' = Append(trace, Inv("ws_connect", "", request, st))
               /\ IF st = "ok"
                  THEN pc' = "ws_send" /\ conn' = "open" /\ UNCHANGED result
                  ELSE /\ End(BridgeResult(tool, ExceptMessage(ExcOf(st))))
                       /\ UNCHANGED conn
    /\ UNCHANGED <<tool, args, cap, dir, resolved, data, ret, tmp, leaked, request, listing>>

\* A plausible slip: no `with`, and a close() after the reply only.
WithExit_AfterReplyOnly(st) == IF st \in {"json", "badjson"} THEN "closed" ELSE "open"

\* Leaving the `with ws_connect(...)` block closes the connection, whether
\* the block ends by return or by exception.
WithExit(st) == "closed"

SendOutcomes == {"ok", "closed"}

\* ws.send(json.dumps(request)); the `with` block closes the connection on the way out.
BridgeSend(tools) ==
    /\ pc = "ws_send"
    /\ tool \in tools
    /\ \E st \in SendOutcomes :
          /\ trace' = Append(trace, Inv("ws_send", "", request, st))
          /\ IF st = "ok"
             THEN pc' = "ws_recv" /\ UNCHANGED <<result, conn>>
             ELSE End(BridgeResult(tool, ExceptMessage(ExcOf(st)))) /\ conn' = WithExit(st)
    /\ UNCHANGED <<tool, args, cap, dir, resolved, data, ret, tmp, leaked, request, listing>>

RecvOutcomes == {"json", "badjson", "timeout", "closed"}

\* What the received message becomes: _send_request parses it;
\* qml_explorer_status only needs it to arrive.
RecvError(t, st) ==
    IF st = "json" \/ (t \in StatusTools /\ st = "badjson")
    THEN ""
    ELSE ExceptMessage(ExcOf(st))

\* response = ws.recv(timeout); return json.loads(response)
BridgeRecv(tools) ==
    /\ pc = "ws_recv"
    /\ tool \in tools
    /\ \E st \in RecvOutcomes :
          /\ trace' = Append(trace, Inv("ws_recv", "", request, st))
          /\ conn' = WithExit(st)
          /\ End(BridgeResult(tool, RecvError(tool, st)))
    /\ UNCHANGED <<tool, args, cap, dir, resolved, data, ret, tmp, leaked, request, listing>>

WsConnect ==
    /\ BridgeConnect(FastExplorerTools)
    /\ UNCHANGED procvars

WsSend ==
    /\ BridgeSend(FastExplorerTools)
    /\ UNCHANGED procvars

WsRecv ==
    /\ BridgeRecv(FastExplorerTools)
    /\ UNCHANGED procvars

SrvWsConnect ==
    /\ BridgeConnect(SrvStateTools)
    /\ UNCHANGED procvars

SrvWsSend ==
    /\ BridgeSend(SrvStateTools)
    /\ UNCHANGED procvars

SrvWsRecv ==
    /\ BridgeRecv(SrvStateTools)
    /\ UNCHANGED procvars

StatusWsConnect ==
    /\ BridgeConnect(StatusTools)
    /\ UNCHANGED procvars

StatusWsSend ==
    /\ BridgeSend(StatusTools)
    /\ UNCHANGED procvars

StatusWsRecv ==
    /\ BridgeRecv(StatusTools)
    /\ UNCHANGED procvars

\* ------------------------------------------------------------------ DevTools HTTP API

\* The GET request: url (base URL + path) and query parameters.
HttpReq(url, params) == [method |-> "GET", url |-> url, params |-> params]

\* What `await client.get(url)` and the lines after it meet: a refused
\* connection, a connection attempt or a read that times out (timeout=5.0),
\* a broken exchange, or a response with a status and a body.
HttpOutcomes ==
    {"refused", "connect_timeout", "read_timeout", "protocol_error",
     "200_json", "200_other", "301", "404", "500"}

StatusCode(o) ==
    CASE o = "301" -> 301
      [] o = "404" -> 404
      [] o = "500" -> 500
      [] OTHER     -> 200

HttpBody(o) ==
    CASE o = "301"      -> ""
      [] o = "404"      -> "Not Found"
      [] o = "500"      -> "Internal Server Error"
      [] o = "200_json" -> "{}"
      [] OTHER          -> "PNG"

\* The exception an outcome raises inside the `try`: httpx.ConnectError,
\* the httpx.TimeoutException subclasses, httpx.HTTPStatusError from
\* raise_for_status (any status outside 2xx), a JSON error from
\* response.json(); "" when nothing is raised.
HttpExcOf(o, parses_json) ==
    CASE o = "refused"         -> "ConnectError"
      [] o = "connect_timeout" -> "ConnectTimeout"
      [] o = "read_timeout"    -> "ReadTimeout"
      [] o = "protocol_error"  -> "RemoteProtocolError"
      [] o \in {"301", "404", "500"} -> "HTTPStatusError"
      [] o = "200_other" /\ parses_json -> "JSONDecodeError"
      [] OTHER -> ""

\* str(e) of the exceptions that reach `except Exception`.
HttpStrOf(exc) ==
    CASE exc = "JSONDecodeError"     -> "Expecting value: line 1 column 1 (char 0)"
      [] exc = "RemoteProtocolError" -> "Server disconnected without sending a response."
      [] OTHER                       -> ""

\* A plausible slip: every httpx error reported as a connection failure.
HttpExceptMessage_AllTransport(exc) ==
    CASE exc \in {"ConnectError", "HTTPStatusError"} -> "CannotConnect"
      [] OTHER -> HttpStrOf(exc)

\* The three except clauses of _get, devdash_telemetry_screenshot and
\* devdash_logs_get, in order.
HttpExceptMessage(exc) ==
    CASE exc = "ConnectError"    -> "CannotConnect"
      [] exc = "HTTPStatusError" -> "HTTP"
      [] OTHER                   -> HttpStrOf(exc)

\* The tools of telemetry.py that go through _get, and their endpoints.
GetTools ==
    {"devdash_telemetry_get_state", "devdash_telemetry_get_warnings",
     "devdash_telemetry_list_windows"}

Endpoint(t) ==
    CASE t = "devdash_telemetry_get_state"    -> "/api/state"
      [] t = "devdash_telemetry_get_warnings" -> "/api/warnings"
      [] t = "devdash_telemetry_list_windows" -> "/api/windows"
      [] t = "devdash_telemetry_screenshot"   -> "/api/screenshot"
      [] OTHER                                -> "/api/logs"

HttpTools == GetTools \cup {"devdash_telemetry_screenshot", "devdash_logs_get"}

\* The mapping a tool returns for an outcome: the parsed reply or the image,
\* or {"error": ...}; _get adds the url to the connection failure, and the
\* HTTP message carries the status code and the body.
HttpResult(t, o) ==
    LET exc == HttpExcOf(o, t # "devdash_telemetry_screenshot")
        msg == HttpExceptMessage(exc)
    IN  IF exc = ""
        THEN IF t = "devdash_telemetry_screenshot"
             THEN Res("image", "", [src |-> "devtools", win |-> args.window, ops |-> <<>>],
                      NoneId, <<>>, "", <<>>)
             ELSE Res("reply", "", NoneImg, NoneId, <<>>, "", <<>>)
        ELSE Res("error", msg, NoneImg, NoneId, <<>>, "",
                 IF msg = "HTTP" THEN <<StatusCode(o), HttpBody(o)>>
                 ELSE IF msg = "CannotConnect" /\ t \in GetTools THEN <<"url", Endpoint(t)>>
                 ELSE <<>>)

StartHttp(t, a, params) ==
    /\ tool' = t
    /\ args' = a
    /\ request' = HttpReq(Endpoint(t), params)
    /\ pc' = "http_get"
    /\ UNCHANGED <<cap, dir, resolved, data, ret, tmp, leaked, result, trace, conn, listing>>

\* devdash_telemetry_get_state(), line 59.
StartDevdashTelemetryGetState ==
    /\ CanStart /\ StartHttp("devdash_telemetry_get_state", NoArgs, <<>>)
    /\ UNCHANGED procvars

\* devdash_telemetry_get_warnings(), line 73.
StartDevdashTelemetryGetWarnings ==
    /\ CanStart /\ StartHttp("devdash_telemetry_get_warnings", NoArgs, <<>>)
    /\ UNCHANGED procvars

\* devdash_telemetry_list_windows(), line 85.
StartDevdashTelemetryListWindows ==
    /\ CanStart /\ StartHttp("devdash_telemetry_list_windows", NoArgs, <<>>)
    /\ UNCHANGED procvars

\* devdash_telemetry_screenshot(window), lines 100-105.
StartDevdashTelemetryScreenshot ==
    /\ CanStart
    /\ \E window \in Queries :
          StartHttp("devdash_telemetry_screenshot", [NoArgs EXCEPT !.window = window],
                    <<<<"window", window>>>>)
    /\ UNCHANGED procvars

CountInputs == {-1, 0, 100, 1000, 1001, 5000}

CategoryInputs == {"", "devdash.broker"}

\* A plausible slip: the count passed through as given.
LogParams_NoCap(count, level, category) ==
    <<<<"count", count>>, <<"level", level>>>>
        \o (IF category # "" THEN <<<<"category", category>>>> ELSE <<>>)

\* lines 46-51: count is capped at 1000, and an empty category is left out
\* of the parameters.
LogParams(count, level, category) ==
    <<<<"count", Min2(count, 1000)>>, <<"level", level>>>>
        \o (IF category # "" THEN <<<<"category", category>>>> ELSE <<>>)

\* devdash_logs_get(count, level, category), lines 43-57.
StartDevdashLogsGet ==
    /\ CanStart
    /\ \E count \in CountInputs, level \in {"info", "debug"}, category \in CategoryInputs :
          StartHttp("devdash_logs_get",
                    [count |-> count, level |-> level, category |-> category],
                    LogParams(count, level, category))
    /\ UNCHANGED procvars

\* A plausible slip: a second attempt after a timeout.
HttpNext_RetryOnTimeout(o) ==
    IF o \in {"connect_timeout", "read_timeout"} THEN "http_get" ELSE "done"

\* Every branch of the `try` and every except clause is a return.
HttpNext(o) == "done"

\* One GET and what follows it inside the `try`: raise_for_status, then
\* response.json() or response.content.
HttpGet(tools) ==
    /\ pc = "http_get"
    /\ tool \in tools
    /\ \E o \in HttpOutcomes :
          /\ trace' = Append(trace, Inv("http_get", Endpoint(tool), NoneImg, o))
          /\ pc' = HttpNext(o)
          /\ result' = HttpResult(tool, o)
    /\ UNCHANGED <<tool, args, cap, dir, resolved, data, ret, tmp, leaked, conn, request, listing>>

\* _get(endpoint), lines 24-41.
Get ==
    /\ HttpGet(GetTools)
    /\ UNCHANGED procvars

\* devdash_telemetry_screenshot, lines 103-122.
TelemetryScreenshotGet ==
    /\ HttpGet({"devdash_telemetry_screenshot"})
    /\ UNCHANGED procvars

\* devdash_logs_get, lines 53-69.
LogsGet ==
    /\ HttpGet({"devdash_logs_get"})
    /\ UNCHANGED procvars

\* screenshot_list_windows(), lines 199-211: the directory, filtered by keyword.
ScreenshotListWindows ==
    /\ CanStart
    /\ \E ls \in SizedListings :
          LET l == ListX11Windows(ls)
          IN  /\ tool' = "screenshot_list_windows"
              /\ listing' = ls
              /\ trace' = l.cmds
              /\ dir' = l.windows
              /\ IF l.raised
                 THEN End(Raise("ValueError"))
                 ELSE End(Res("windows", "", NoneImg, NoneId, <<>>, "",
                              FilterWindows(l.windows, DEVDASH_KEYWORDS)))
    /\ UNCHANGED <<args, cap, resolved, data, ret, tmp, leaked, conn, request>>
    /\ UNCHANGED procvars

\* call_tool, qmlgauges_list_windows, lines 297-314; an exception of the
\* listing is caught by call_tool (462-468).
QmlgaugesListWindows ==
    /\ CanStart
    /\ \E ls \in SizedListings :
          LET l == list_x11_windows(ls)
          IN  /\ tool' = "qmlgauges_list_windows"
              /\ listing' = ls
              /\ trace' = l.cmds
              /\ dir' = l.windows
              /\ IF l.raised
                 THEN End(Text("Exception", NoneId, <<>>, <<>>))
                 ELSE End(Text("", NoneId, <<>>, FilterWindows(l.windows, QML_KEYWORDS)))
    /\ UNCHANGED <<args, cap, resolved, data, ret, tmp, leaked, conn, request>>
    /\ UNCHANGED procvars

\* The caller has the result; a temporary file not unlinked stays on disk.
Return ==
    /\ pc = "done"
    /\ pc' = "idle"
    /\ leaked' = leaked + (IF tmp \in {"empty", "image"} THEN 1 ELSE 0)
    /\ tool' = ""
    /\ args' = NoArgs
    /\ cap' = NoCap
    /\ dir' = <<>>
    /\ resolved' = NoneId
    /\ data' = NoneImg
    /\ ret' = NoneImg
    /\ tmp' = "none"
    /\ result' = NoRes
    /\ trace' = <<>>
    /\ conn' = "none"
    /\ request' = NoReq
    /\ listing' = NoListing
    /\ UNCHANGED procvars

Next ==
    \/ StartScreenshotCapture
    \/ StartScreenshotGaugePreview
    \/ StartCaptureWindow
    \/ Resolve
    \/ NotFound
    \/ Import
    \/ LeftCrop
    \/ CenterCrop
    \/ Scale
    \/ Mktemp
    \/ Scrot
    \/ ReadTmp
    \/ Finish
    \/ ReturnBytes
    \/ StartQmlgaugesScreenshot
    \/ SrvResolve
    \/ SrvNotFound
    \/ SrvImport
    \/ SrvMktemp
    \/ SrvScrot
    \/ SrvReadTmp
    \/ SrvFinish
    \/ StartQmlExplorerNavigate
    \/ StartQmlgaugesNavigate
    \/ WsConnect
    \/ WsSend
    \/ WsRecv
    \/ SrvWsConnect
    \/ SrvWsSend
    \/ SrvWsRecv
    \/ StartQmlExplorerGetState
    \/ StartQmlExplorerGetProperty
    \/ StartQmlExplorerSetProperty
    \/ StartQmlExplorerListProperties
    \/ StartQmlExplorerStatus
    \/ StartQmlgaugesGetState
    \/ StartQmlgaugesGetProperty
    \/ StartQmlgaugesSetProperty
    \/ StartQmlgaugesListProperties
    \/ StatusWsConnect
    \/ StatusWsSend
    \/ StatusWsRecv
    \/ StartDevdashTelemetryGetState
    \/ StartDevdashTelemetryGetWarnings
    \/ StartDevdashTelemetryListWindows
    \/ StartDevdashTelemetryScreenshot
    \/ StartDevdashLogsGet
    \/ Get
    \/ TelemetryScreenshotGet
    \/ LogsGet
    \/ ScreenshotListWindows
    \/ QmlgaugesListWindows
    \/ Return

Spec == Init /\ [][Next]_vars

\* ------------------------------------------------------------------ process tools (explorer.py)

\* The configuration is read once; the machine starts with no explorer.
ProcInit ==
    /\ pc = "idle"
    /\ tool = ""
    /\ args = NoArgs
    /\ cap = NoCap
    /\ dir = <<>>
    /\ resolved = NoneId
    /\ data = NoneImg
    /\ ret = NoneImg
    /\ tmp = "none"
    /\ leaked = 0
    /\ result = NoRes
    /\ trace = <<>>
    /\ conn = "none"
    /\ request = NoReq
    /\ listing = NoListing
    /\ config \in Configs
    /\ procs = NoProcs
    /\ local = NoLocal

\* What the process tools leave alone.
capvars == <<args, cap, dir, resolved, data, ret, tmp, leaked, conn, request, listing>>

Alive == {p \in 1..MaxPids : procs[p].alive}

Free == {p \in 1..MaxPids : procs[p].owner = "free"}

\* The pids of a set in ascending order, as pgrep prints them.
RECURSIVE Ascending(_)
Ascending(S) == IF S = {} THEN <<>> ELSE <<Min(S)>> \o Ascending(S \ {Min(S)})

\* `pgrep -f qml-gauges-explorer`: it cannot be started, it fails (exit 2 or
\* 3), it matches nothing (exit 1), or it prints the matching pids (exit 0).
PgrepOutcomes == {"missing", "error"} \cup (IF Alive = {} THEN {"none"} ELSE {"found"})

\* The dict a process tool returns.
ProcResult(success, what, pids, pid, killed) ==
    Res(IF success THEN "success" ELSE "error", what, NoneImg, NoneId, <<>>, "",
        [pids |-> pids, pid |-> pid, killed |-> killed])

\* qml_explorer_launch, lines 273-280.
StartQmlExplorerLaunch ==
    /\ pc = "idle"
    /\ tool' = "qml_explorer_launch"
    /\ local' = NoLocal
    /\ IF config.qml_gauges_path = ""
       THEN End(ProcResult(FALSE, "NotConfigured", <<>>, 0, 0))
       ELSE pc' = "l_probe" /\ UNCHANGED result
    /\ UNCHANGED <<trace, config, procs>>
    /\ UNCHANGED capvars

\* lines 283-297: only a probe that exits 0 returns; `except Exception: pass`
\* and every other exit status fall through to the launch.
ProbeNext(o) == IF o = "found" THEN "done" ELSE "l_exists"

LaunchProbe ==
    /\ pc = "l_probe"
    /\ \E o \in PgrepOutcomes :
          /\ trace' = Append(trace, Inv("pgrep", "", NoneImg, o))
          /\ pc' = ProbeNext(o)
          /\ result' = IF o = "found"
                       THEN ProcResult(TRUE, "AlreadyRunning", Ascending(Alive), 0, 0)
                       ELSE result
    /\ UNCHANGED <<tool, config, procs, local>>
    /\ UNCHANGED capvars

\* lines 300-304: os.path.exists(config.explorer_executable).
LaunchExists ==
    /\ pc = "l_exists"
    /\ \E e \in {"yes", "no"} :
          /\ trace' = Append(trace, Inv("exists", "", NoneImg, e))
          /\ IF e = "no"
             THEN End(ProcResult(FALSE, "ExplorerNotFound", <<>>, 0, 0))
             ELSE pc' = "l_popen" /\ UNCHANGED result
    /\ UNCHANGED <<tool, config, procs, local>>
    /\ UNCHANGED capvars

\* lines 311-319: subprocess.Popen starts the explorer, or raises.
LaunchPopen ==
    /\ pc = "l_popen"
    /\ \/ /\ Free # {}
          /\ trace' = Append(trace, Inv("popen", "", NoneImg, "ok"))
          /\ procs' = [procs EXCEPT ![Min(Free)] = Proc("tool", TRUE)]
          /\ local' = [local EXCEPT !.pid = Min(Free)]
          /\ pc' = "l_poll"
          /\ UNCHANGED result
       \/ /\ trace' = Append(trace, Inv("popen", "", NoneImg, "oserror"))
          /\ End(ProcResult(FALSE, "Exception", <<>>, 0, 0))
          /\ UNCHANGED <<procs, local>>
    /\ UNCHANGED <<tool, config>>
    /\ UNCHANGED capvars

\* lines 321-336: after a second, process.poll() tells whether it still runs.
LaunchPoll ==
    /\ pc = "l_poll"
    /\ IF procs[local.pid].alive
       THEN End(ProcResult(TRUE, "Launched", <<>>, local.pid, 0))
       ELSE End(ProcResult(FALSE, "ExitedImmediately", <<>>, 0, 0))
    /\ UNCHANGED <<tool, trace, config, procs, local>>
    /\ UNCHANGED capvars

\* qml_explorer_kill, line 350.
StartQmlExplorerKill ==
    /\ pc = "idle"
    /\ tool' = "qml_explorer_kill"
    /\ local' = NoLocal
    /\ pc' = "k_probe"
    /\ UNCHANGED <<result, trace, config, procs>>
    /\ UNCHANGED capvars

\* lines 352-366: pgrep; a non-zero exit is "nothing running"; FileNotFoundError
\* reaches the outer except.
KillProbe ==
    /\ pc = "k_probe"
    /\ \E o \in PgrepOutcomes :
          /\ trace' = Append(trace, Inv("pgrep", "", NoneImg, o))
          /\ CASE o = "missing" ->
                    End(ProcResult(FALSE, "Exception", <<>>, 0, 0)) /\ UNCHANGED local
               [] o \in {"none", "error"} ->
                    End(ProcResult(TRUE, "NoneRunning", <<>>, 0, 0)) /\ UNCHANGED local
               [] OTHER ->
                    /\ pc' = "k_loop"
                    /\ local' = Local(Ascending(Alive), 1, 0, 0)
                    /\ UNCHANGED result
    /\ UNCHANGED <<tool, config, procs>>
    /\ UNCHANGED capvars

\* os.kill(pid, SIGTERM): delivered, or refused for a process of another
\* user, or ProcessLookupError for a process that is gone.
KillOutcomes(pid) ==
    IF procs[pid].alive
    THEN {"ok"} \cup (IF procs[pid].owner = "other" THEN {"eperm"} ELSE {})
    ELSE {"esrch"}

\* A plausible slip: the count taken before the signal is known to be delivered.
Killed_CountAttempts(killed, o) == killed + 1

\* lines 370-373: killed += 1 follows os.kill inside the try.
Killed(killed, o) == IF o = "ok" THEN killed + 1 ELSE killed

\* lines 368-373: one turn of the loop.  ProcessLookupError is passed over;
\* PermissionError reaches the outer except (381-382).
KillSignal ==
    /\ pc = "k_loop"
    /\ local.i <= Len(local.pids)
    /\ \E o \in KillOutcomes(local.pids[local.i]) :
          /\ trace' = Append(trace, Inv("kill", local.pids[local.i], NoneImg, o))
          /\ IF o = "eperm"
             THEN End(ProcResult(FALSE, "Exception", <<>>, 0, 0)) /\ UNCHANGED local
             ELSE /\ local' = [local EXCEPT !.i = @ + 1, !.killed = Killed(@, o)]
                  /\ UNCHANGED <<pc, result>>
    /\ UNCHANGED <<tool, config, procs>>
    /\ UNCHANGED capvars

\* lines 375-379.
KillReturn ==
    /\ pc = "k_loop"
    /\ local.i > Len(local.pids)
    /\ End(ProcResult(TRUE, "Killed", local.pids, 0, local.killed))
    /\ UNCHANGED <<tool, trace, config, procs, local>>
    /\ UNCHANGED capvars

\* The environment: an explorer process ends (after a SIGTERM or on its own).
ExplorerExits ==
    /\ \E p \in Alive : procs' = [procs EXCEPT ![p].alive = FALSE]
    /\ UNCHANGED <<pc, tool, result, trace, config, local>>
    /\ UNCHANGED capvars

\* The environment: someone starts an explorer outside the tool.
ExplorerStarts ==
    /\ Free # {}
    /\ procs' = [procs EXCEPT ![Min(Free)] = Proc("other", TRUE)]
    /\ UNCHANGED <<pc, tool, result, trace, config, local>>
    /\ UNCHANGED capvars

\* The caller has the result of a process tool.
ProcReturn ==
    /\ pc = "done"
    /\ pc' = "idle"
    /\ tool' = ""
    /\ result' = NoRes
    /\ trace' = <<>>
    /\ local' = NoLocal
    /\ UNCHANGED <<config, procs>>
    /\ UNCHANGED capvars

ProcNext ==
    \/ StartQmlExplorerLaunch
    \/ LaunchProbe
    \/ LaunchExists
    \/ LaunchPopen
    \/ LaunchPoll
    \/ StartQmlExplorerKill
    \/ KillProbe
    \/ KillSignal
    \/ KillReturn
    \/ ExplorerExits
    \/ ExplorerStarts
    \/ ProcReturn

SpecProc == ProcInit /\ [][ProcNext]_vars

\* ------------------------------------------------------------------ claims

\* The runs of `cmd` in the current invocation, as positions of the trace.
Runs(cmd) == {i \in 1..Len(trace) : trace[i].cmd = cmd}

StepRuns(step) == {i \in Runs("convert") : trace[i].step = step}

\* The resolver of the current invocation has returned.
HasResolved ==
    \/ tool \in FastTools /\ pc \notin {"idle", "resolve"}
    \/ tool = "qmlgauges_screenshot" /\ pc \notin {"idle", "s_resolve"} /\ ~Falsy(args.window)

\* C1: whenever some window of the directory has a title equal to the query,
\* case-insensitively, the resolver (either copy) returns the id of a window
\* whose title equals the query, wherever the windows that only contain the
\* query stand in the directory.
C1_ExactMatchPreferred ==
    (HasResolved /\ \E i \in 1..Len(dir) : Lower(dir[i].title) = Lower(args.window))
        => \E i \in 1..Len(dir) :
              /\ Lower(dir[i].title) = Lower(args.window)
              /\ dir[i].id = resolved

\* C1's case: a window that only contains the query precedes the one that equals it.
C1_Witness ==
    /\ tool = "screenshot_capture"
    /\ pc = "import"
    /\ Len(dir) = 2
    /\ Lower(dir[1].title) # Lower(args.window)
    /\ Contains(Lower(args.window), Lower(dir[1].title))
    /\ Lower(dir[2].title) = Lower(args.window)
    /\ resolved = dir[2].id

\* The resolver's own listing raised: the invocation ended on its first wmctrl.
ResolverRaised ==
    /\ pc = "done"
    /\ result.kind = "raise"
    /\ result.exc = "ValueError"
    /\ Cardinality(Runs("wmctrl")) = 1

\* C2: when no title of the directory equals or contains the query,
\* case-insensitively, the resolver returns None, no capture utility is run,
\* and the capture tool ends by returning a failure that has an error field
\* and no image.
C2_NotFoundNoCapture ==
    (tool \in FastTools /\ pc \notin {"idle", "resolve"} /\ ~ResolverRaised
        /\ \A i \in 1..Len(dir) : ~Contains(Lower(args.window), Lower(dir[i].title)))
        => /\ resolved = NoneId
           /\ pc \in {"notfound", "done"}
           /\ Runs("import") = {} /\ Runs("scrot") = {} /\ Runs("convert") = {}
           /\ pc = "done" =>
                 /\ result.kind = "error"
                 /\ result.error = "NotFound"
                 /\ result.image = NoneImg

\* The capture utility whose output the pipeline holds, by the trace.
RawOutput ==
    IF \E i \in Runs("import") : trace[i].status = "ok"
    THEN RawImage("import", cap.window_id)
    ELSE RawImage("scrot", <<"focused">>)

IdentityParams == cap.scale = 1000 /\ cap.crop_left = <<>> /\ cap.crop_center = <<>>

\* C8: with scale 1.0 and neither crop given, the transform command is never
\* run, and the bytes capture returns are the raw output of the capture
\* utility that produced the image.
C8_IdentityPassThrough ==
    (tool \in PipelineTools /\ IdentityParams)
        => /\ Runs("convert") = {}
           /\ (pc \in {"captured", "done"} /\ ~NoData(ret)) => ret = RawOutput
           /\ (pc = "done" /\ result.kind \in {"image", "bytes"} /\ ~NoData(ret))
                 => result.image = RawOutput

\* C8's case: screenshot_capture at scale 1.0 without a crop returned the
\* output of `import`.
C8_Witness ==
    /\ tool = "screenshot_capture"
    /\ pc = "done"
    /\ IdentityParams
    /\ result.kind = "image"
    /\ result.image = RawImage("import", resolved)
    /\ resolved # NoneId

NavigateTools == {"qml_explorer_navigate", "qmlgauges_navigate"}

\* C3: in every navigate entry point, a page name outside the allow-list ends
\* the call with a failure naming the valid pages, and no connection to the
\* explorer is opened.
C3_InvalidPageNoConnection ==
    (tool \in NavigateTools /\ args.page # "" /\ ~InList(args.page, EXPLORER_PAGES))
        => /\ Runs("ws_connect") = {}
           /\ pc = "done" => result.error = "InvalidPage" /\ result.detail = EXPLORER_PAGES

CaptureTools == FastTools \cup {"qmlgauges_screenshot"}

PrimaryUnavailable == \E i \in Runs("import") : trace[i].status \in {"fail", "missing"}

\* C4: when the primary capture utility is unavailable (missing, or exiting
\* non-zero) and nothing goes wrong in the fallback, capture returns the
\* fallback utility's bytes as a success and its temporary file is gone.
C4_FallbackSucceeds ==
    (tool \in PipelineTools \cup {"qmlgauges_screenshot"} /\ pc = "done"
        /\ PrimaryUnavailable
        /\ \A i \in Runs("scrot") : trace[i].status = "wrote"
        /\ result.exc # "OSError" /\ result.error # "Exception")
        => /\ result.kind \in {"image", "bytes", "imagecontent"}
           /\ result.image = RawImage("scrot", <<"focused">>)
           /\ tmp \notin {"empty", "image"}

AllTools == CaptureTools \cup NavigateTools

\* C5: no tool invocation ends by raising; every invocation returns a
\* structured result, and a failure is a result with an error.
C5_NothingRaises ==
    (tool \in AllTools /\ pc = "done")
        => /\ result.kind # "raise"
           /\ result.error # "" => result.kind \in {"error", "text"}

\* C6: a transform command that fails, by a non-zero exit or by not starting,
\* is skipped: capture still returns an image, and the next step is given the
\* bytes the failed step was given.
C6_TransformFailSoft ==
    (tool \in PipelineTools /\ \E i \in Runs("convert") : trace[i].status # "ok")
        => /\ pc = "done" => result.kind \in {"image", "bytes"}
           /\ \A i, j \in Runs("convert") :
                 (j = i + 1 /\ trace[i].status # "ok") => trace[j].input = trace[i].input

\* C7: when neither capture utility produces an image (and the temporary
\* file, if any, could be read), the capture tool returns the CaptureFailed
\* failure, naming the window and its id, and no image; empty bytes are never
\* returned as an image.
C7_CaptureFailed ==
    (tool \in CaptureTools /\ pc = "done")
        => /\ result.kind \in {"image", "imagecontent"} => ~NoData(result.image)
           /\ (PrimaryUnavailable /\ (\E i \in Runs("scrot") : trace[i].status # "wrote")
                  /\ result.exc # "OSError" /\ result.error # "Exception")
                 => /\ result.error = "CaptureFailed"
                    /\ result.image = NoneImg
                    /\ result.window = args.window
                    /\ result.window_id = resolved

\* C9: in a capture call that returns an image, the transforms run in the order
\* left-crop, center-crop, scale, each at most once and each on the output of
\* the last step that succeeded; left-crop runs iff crop_left is given and
\* below 1.0, center-crop iff crop_center is given and below 1.0, scale iff
\* scale is below 1.0.
C9_TransformOrder ==
    (tool \in PipelineTools /\ pc \in {"captured", "done"} /\ ~NoData(ret))
        => /\ Cardinality(StepRuns("left")) = IF LeftCropRequested(cap.crop_left) THEN 1 ELSE 0
           /\ Cardinality(StepRuns("center")) = IF CenterCropRequested(cap.crop_center) THEN 1 ELSE 0
           /\ Cardinality(StepRuns("scale")) = IF cap.scale < 1000 THEN 1 ELSE 0
           /\ \A i \in StepRuns("left"), j \in StepRuns("center") \cup StepRuns("scale") : i < j
           /\ \A i \in StepRuns("center"), j \in StepRuns("scale") : i < j
           /\ \A i, j \in Runs("convert") :
                 j = i + 1 => trace[j].input = IF trace[i].status = "ok"
                                               THEN Convert(trace[i].input, trace[j].input.ops[Len(trace[j].input.ops)])
                                               ELSE trace[i].input

\* C10: an image obtained through the fallback utility is transformed like one
\* obtained through the primary: when capture returns it and scale is below
\* 1.0, or a crop below 1.0 was given, the transform command was run on it.
C10_FallbackTransformed ==
    (tool \in PipelineTools /\ pc \in {"captured", "done"} /\ ret.src = "scrot")
        => /\ cap.scale < 1000 => StepRuns("scale") # {}
           /\ LeftCropRequested(cap.crop_left) => StepRuns("left") # {}
           /\ CenterCropRequested(cap.crop_center) => StepRuns("center") # {}

\* The tools that talk to the explorer through _send_request / send_state_request.
BridgeTools == FastExplorerTools \cup SrvStateTools

\* The step of the exchange that failed, when the last one did.
LastStep == trace[Len(trace)]

BridgeFailed(st) ==
    /\ tool \in BridgeTools
    /\ pc = "done"
    /\ Len(trace) > 0
    /\ LastStep.cmd \in {"ws_connect", "ws_send", "ws_recv"}
    /\ LastStep.status = st

\* C11: a refused connection, a timeout, and any other transport or JSON
\* error end the call with three pairwise different messages ("cannot
\* connect", "timeout", the text of the exception); each time the call returns
\* a mapping with success False and does not raise.
C11_DistinctMessages ==
    /\ BridgeFailed("refused") => result.error = "CannotConnect"
    /\ BridgeFailed("timeout") => result.error = "Timeout"
    /\ \A st \in {"badjson", "closed", "error"} :
          BridgeFailed(st) => result.error \notin {"CannotConnect", "Timeout", ""}
    /\ \A st \in {"refused", "timeout", "badjson", "closed", "error"} :
          BridgeFailed(st) => /\ result.kind \in {"error", "text"}
                              /\ result.detail = <<"success", "False">>

\* C11's case: the reply did not arrive in time, after a connection that opened.
C11_Witness ==
    /\ tool = "qml_explorer_navigate"
    /\ BridgeFailed("timeout")
    /\ LastStep.cmd = "ws_recv"
    /\ result.error = "Timeout"

ListTools == {"screenshot_list_windows", "qmlgauges_list_windows"}

\* The listing of the current invocation returned a directory.
ListReturned == result.kind # "raise" /\ result.error # "Exception"

BothListingsFailed == listing.wm \in {"fail", "missing"} /\ listing.xw \in {"fail", "missing"}

\* C12: the secondary listing command is run exactly when the primary is
\* missing or exits non-zero; when the primary succeeds its parsed result is
\* returned, empty or not, and the secondary is not run; when both fail the
\* empty sequence is returned and nothing is raised.
C12_SecondaryOnlyOnFailure ==
    (tool \in ListTools /\ pc = "done")
        => /\ Cardinality(Runs("wmctrl")) = 1
           /\ (Runs("xwininfo") # {}) <=> (listing.wm \in {"fail", "missing"})
           /\ listing.wm = "ok" => ListReturned /\ dir = WmctrlWindows(listing.lines)
           /\ BothListingsFailed => ListReturned /\ dir = <<>>

\* C13: every window that comes back through the secondary path is more than
\* 100 wide and more than 100 high, and the primary path filters nothing by
\* size: each line of eight well-formed fields is a window of the directory,
\* with the width and height of the line.
C13_SizeFilterSecondaryOnly ==
    (tool \in ListTools /\ pc = "done" /\ ListReturned)
        => /\ Runs("xwininfo") # {} =>
                 \A i \in 1..Len(dir) : dir[i].width > 100 /\ dir[i].height > 100
           /\ Runs("xwininfo") = {} =>
                 \A k \in 1..Len(listing.lines) :
                    listing.lines[k].shape = "ok" =>
                       \E i \in 1..Len(dir) :
                          /\ dir[i].id = listing.lines[k].id
                          /\ dir[i].width = listing.lines[k].w
                          /\ dir[i].height = listing.lines[k].h

\* C13's case: the secondary path dropped a window exactly 100 high and kept
\* one of 101 by 101.
C13_Witness ==
    /\ tool = "screenshot_list_windows"
    /\ pc = "done"
    /\ Runs("xwininfo") # {}
    /\ Len(listing.lines) = 2
    /\ listing.lines[1].shape = "ok" /\ listing.lines[1].h = 100
    /\ listing.lines[2].shape = "ok" /\ listing.lines[2].w = 101
    /\ Len(dir) = 1
    /\ dir[1].id = listing.lines[2].id

\* The nearest value of [lo, hi] to x.
Nearest(lo, hi, x) == IF x < lo THEN lo ELSE IF x > hi THEN hi ELSE x

ExplorerTools == BridgeTools \cup StatusTools

Opened == \E i \in Runs("ws_connect") : trace[i].status = "ok"

\* C15: an explorer request opens a connection of its own, sends once on it
\* and receives at most once, and the connection is closed when the call
\* returns, whichever way it ends; none is open between calls.
C15_OneExchangePerConnection ==
    /\ pc \in {"idle", "done"} => conn # "open"
    /\ pc = "ws_connect" => conn = "none"
    /\ Cardinality(Runs("ws_connect")) <= 1
    /\ Cardinality(Runs("ws_send")) <= 1
    /\ Cardinality(Runs("ws_recv")) <= 1
    /\ Runs("ws_send") # {} => Opened
    /\ Runs("ws_recv") # {} => \E i \in Runs("ws_send") : trace[i].status = "ok"
    /\ (pc = "done" /\ Opened) => Cardinality(Runs("ws_send")) = 1 /\ conn = "closed"

\* C15's case: a connection that opened and sent, whose reply timed out.
C15_Witness ==
    /\ tool = "qml_explorer_get_property"
    /\ pc = "done"
    /\ Opened
    /\ BridgeFailed("timeout")
    /\ conn = "closed"

GetPropertyTools == {"qml_explorer_get_property", "qmlgauges_get_property"}

SetPropertyTools == {"qml_explorer_set_property", "qmlgauges_set_property"}

\* C16: getProperty and setProperty validate nothing locally: whatever the
\* name and the value (empty, false, zero and null included), the call is not
\* refused, and the request handed to the connection carries the action and
\* exactly the name and value supplied.
C16_PropertiesPassThrough ==
    /\ (tool \in GetPropertyTools /\ args.name \in NameInputs)
          => /\ request = Req("getProperty", "", args.name, Absent)
             /\ result.error # "MissingParameter"
    /\ (tool \in SetPropertyTools /\ args.name \in NameInputs)
          => /\ request = Req("setProperty", "", args.name, args.value)
             /\ result.error # "MissingParameter"

\* The GET of the current invocation ended with outcome o.
HttpEnded(o) ==
    /\ tool \in HttpTools
    /\ pc = "done"
    /\ Len(trace) > 0
    /\ LastStep.cmd = "http_get"
    /\ LastStep.status = o

\* C17: a connection failure and a status outside 2xx are reported apart: the
\* first with the "cannot connect" message and no status, the second with a
\* message that carries the status code and the body of the response.
C17_ConnectAndStatusDistinct ==
    /\ HttpEnded("refused") =>
          /\ result.kind = "error"
          /\ result.error = "CannotConnect"
          /\ result.detail \in {<<>>, <<"url", Endpoint(tool)>>}
    /\ HttpEnded("301") =>
          result.kind = "error" /\ result.error = "HTTP" /\ result.detail = <<301, "">>
    /\ HttpEnded("404") =>
          result.kind = "error" /\ result.error = "HTTP" /\ result.detail = <<404, "Not Found">>
    /\ HttpEnded("500") =>
          /\ result.kind = "error"
          /\ result.error = "HTTP"
          /\ result.detail = <<500, "Internal Server Error">>

\* C17's case: the logs endpoint answered 404.
C17_Witness ==
    /\ tool = "devdash_logs_get"
    /\ HttpEnded("404")
    /\ result.error = "HTTP"
    /\ result.detail = <<404, "Not Found">>

\* C18: against an unreachable host the GET of _get ends within its timeout
\* with the "cannot connect" failure, when the connection is refused and when
\* the connection attempt times out alike; unreachability is never reported by
\* the generic branch.
C18_UnreachableIsCannotConnect ==
    \A o \in {"refused", "connect_timeout"} :
        (HttpEnded(o) /\ tool \in GetTools)
            => result.kind = "error" /\ result.error = "CannotConnect"

NetworkCmds == {"ws_connect", "ws_send", "ws_recv", "http_get"}

NetworkSuccess == {"ok", "json", "200_json", "200_other"}

\* C19: nothing is retried.  In one invocation each capture utility is started
\* at most once, the transform command at most once per step, and each step
\* of a network exchange at most once; a network step that fails or times out
\* is the last thing the invocation does before it returns.
C19_NoRetry ==
    /\ Cardinality(Runs("import")) <= 1
    /\ Cardinality(Runs("scrot")) <= 1
    /\ \A step \in {"left", "center", "scale"} : Cardinality(StepRuns(step)) <= 1
    /\ \A cmd \in NetworkCmds : Cardinality(Runs(cmd)) <= 1
    /\ \A i \in 1..Len(trace) :
          (trace[i].cmd \in NetworkCmds /\ trace[i].status \notin NetworkSuccess)
              => i = Len(trace) /\ pc = "done"

\* C19's case: a GET that timed out, and the invocation over after that one attempt.
C19_Witness ==
    /\ tool = "devdash_telemetry_get_warnings"
    /\ HttpEnded("read_timeout")
    /\ Cardinality(Runs("http_get")) = 1

\* C20: a capture call that took the fallback path leaves no temporary file
\* behind, however the fallback went (file written and read, read failed,
\* scrot exited non-zero, scrot missing), so that none accumulates over a
\* sequence of calls.
C20_NoTempFileLeft ==
    /\ pc = "done" => tmp \in {"none", "unlinked", "removed"}
    /\ leaked = 0

\* The geometry ImageMagick computes for a percentage: the nearest pixel.
PercentOf(n, pct) == (n * pct + 50) \div 100

\* Width and height of an image after one transform.
DimsAfter(op, d) == << PercentOf(d[1], op.wpct), PercentOf(d[2], op.hpct) >>

\* Width and height after the first k transforms of `ops` on a w by h image.
RECURSIVE DimsAt(_, _, _, _)
DimsAt(ops, k, w, h) ==
    IF k = 0 THEN << w, h >> ELSE DimsAfter(ops[k], DimsAt(ops, k - 1, w, h))

\* Every transform of the preview pipeline ran and exited 0.
PreviewTransformed ==
    /\ tool = "screenshot_gauge_preview"
    /\ pc \in {"captured", "done"}
    /\ \A step \in {"left", "center", "scale"} :
          \E i \in StepRuns(step) : trace[i].status = "ok"

\* C21: the preview tool always hands the pipeline scale 0.5, crop_left 0.6 and
\* crop_center 0.8, and when all three transforms succeed the left crop keeps
\* 60% of the width and the whole height, the centre crop then keeps 80% of
\* both, and the scale halves both: 1000 by 800 becomes 600 by 800, then 480
\* by 640, then 240 by 320.
C21_PreviewGeometry ==
    /\ (tool = "screenshot_gauge_preview" /\ pc # "idle")
          => cap.scale = 500 /\ cap.crop_left = <<600>> /\ cap.crop_center = <<800>>
    /\ PreviewTransformed
          => /\ Len(ret.ops) = 3
             /\ ret.ops[1].gravity = "West" /\ ret.ops[2].gravity = "center"
             /\ DimsAt(ret.ops, 1, 1000, 800) = <<600, 800>>
             /\ DimsAt(ret.ops, 2, 1000, 800) = <<480, 640>>
             /\ DimsAt(ret.ops, 3, 1000, 800) = <<240, 320>>
             /\ \A w \in {500, 1000}, h \in {400, 800} :
                   /\ DimsAt(ret.ops, 1, w, h) = << (w * 60) \div 100, h >>
                   /\ DimsAt(ret.ops, 2, w, h) = << (w * 48) \div 100, (h * 80) \div 100 >>

\* C21's case: a preview whose three transforms all succeeded was returned.
C21_Witness ==
    /\ PreviewTransformed
    /\ pc = "done"
    /\ result.kind = "image"
    /\ result.image = ret
    /\ ret.src = "import"

\* The windows of the directory whose title equals / contains the query.
EqualTo(q) == {i \in 1..Len(dir) : Lower(dir[i].title) = Lower(q)}

Containing(q) == {i \in 1..Len(dir) : Contains(Lower(q), Lower(dir[i].title))}

\* C22: the resolver (either copy) returns the first match of the pass that
\* fires: the earliest window whose title equals the query when there is one,
\* otherwise the earliest window whose title contains it, in the order of the
\* directory; and None when no title contains the query.
C22_FirstMatchWins ==
    HasResolved
        => /\ EqualTo(args.window) # {}
                 => \E i \in EqualTo(args.window) :
                       /\ resolved = dir[i].id
                       /\ \A j \in EqualTo(args.window) : i <= j
           /\ (EqualTo(args.window) = {} /\ Containing(args.window) # {})
                 => \E i \in Containing(args.window) :
                       /\ resolved = dir[i].id
                       /\ \A j \in Containing(args.window) : i <= j
           /\ Containing(args.window) = {} => resolved = NoneId

\* C22's case: no title equals the query, two titles contain it, the first wins.
C22_Witness ==
    /\ HasResolved
    /\ args.window # <<>>
    /\ EqualTo(args.window) = {}
    /\ Containing(args.window) = {1, 2}
    /\ dir[1].id # dir[2].id
    /\ resolved = dir[1].id

\* The positions of the query parameter `key` in the request of the invocation.
ParamsNamed(key) == {i \in 1..Len(request.params) : request.params[i][1] = key}

LogsRequested == tool = "devdash_logs_get" /\ pc # "idle"

\* C23: the request of the log tool carries count = min(count, 1000), so never
\* more than 1000 and the argument itself when it is at most 1000 (zero and
\* negative values included), always carries the level given, and carries the
\* category exactly when the category argument is not empty.
C23_LogCountCapped ==
    LogsRequested
        => /\ \E i \in 1..Len(request.params) :
                 /\ ParamsNamed("count") = {i}
                 /\ request.params[i][2] <= 1000
                 /\ request.params[i][2] = IF args.count <= 1000 THEN args.count ELSE 1000
           /\ \E i \in 1..Len(request.params) :
                 /\ ParamsNamed("level") = {i}
                 /\ request.params[i][2] = args.level
           /\ IF args.category = ""
              THEN ParamsNamed("category") = {}
              ELSE \E i \in 1..Len(request.params) :
                      /\ ParamsNamed("category") = {i}
                      /\ request.params[i][2] = args.category
           /\ \A i \in 1..Len(request.params) :
                 request.params[i][1] \in {"count", "level", "category"}
           /\ \A i \in Runs("http_get") : trace[i].step = "/api/logs"

\* C23's case: a count above the cap was asked for and the GET was sent.
C23_Witness ==
    /\ LogsRequested
    /\ pc = "done"
    /\ args.count = 5000
    /\ args.category = ""
    /\ request.params = <<<<"count", 1000>>, <<"level", args.level>>>>
    /\ Runs("http_get") # {}

\* The capture tool was called with the empty query and its resolver returned
\* from a directory that has windows.
EmptyQueryResolved ==
    /\ tool \in FastTools
    /\ args.window = <<>>
    /\ HasResolved
    /\ dir # <<>>

\* C24: the empty query is not rejected.  The two capture tools of
\* screenshot.py hand it to the resolver, where it equals no title and is
\* contained in every title, so that against a directory that has windows it
\* resolves to the first one and the tool goes on to capture that window: it
\* never ends with the NotFound or a missing-parameter failure.  The resolver
\* of server.py resolves it the same way, although its tool refuses it first.
C24_EmptyQueryResolvesFirst ==
    /\ EmptyQueryResolved
          => /\ EqualTo(args.window) = {}
             /\ resolved = dir[1].id
             /\ cap.window_id = dir[1].id
             /\ pc # "notfound"
             /\ Runs("import") = {} => pc = "import"
             /\ pc = "done" => result.error \notin {"NotFound", "MissingParameter"}
             /\ (pc = "done" /\ result.kind = "image") => result.window_id = dir[1].id
    /\ (tool = "qmlgauges_screenshot" /\ pc = "done" /\ args.window = <<>>)
          => \A ls \in Listings :
                LET f == find_window_by_name(<<>>, ls)
                IN  f.windows # <<>> => f.id = f.windows[1].id

\* C24's case: screenshot_capture("") returned the image of the first of two windows.
C24_Witness ==
    /\ EmptyQueryResolved
    /\ tool = "screenshot_capture"
    /\ Len(dir) = 2
    /\ pc = "done"
    /\ result.kind = "image"
    /\ result.image.win = dir[1].id
    /\ result.window_id = dir[1].id

\* C25: the two copies of the directory and of the resolver agree.  For every
\* pair of outcomes of the two listing commands and every output they print,
\* list_x11_windows (server.py) and _list_x11_windows (screenshot.py) run the
\* same commands and return the same windows in the same order (or both
\* raise), and for every query find_window_by_name and _find_window_by_name
\* return the same id or both None.
C25_CopiesAgree ==
    (tool \in ListTools /\ pc = "done")
        => /\ ListX11Windows(listing) = list_x11_windows(listing)
           /\ \A q \in Queries :
                 FindWindowByName(q, listing) = find_window_by_name(q, listing)

\* C25's case: the secondary listing printed a window below the size
\* threshold and one above it; both copies keep the second alone and resolve a
\* query to it.
C25_Witness ==
    /\ tool = "qmlgauges_list_windows"
    /\ pc = "done"
    /\ listing.wm = "fail" /\ listing.xw = "ok"
    /\ Len(listing.lines) = 2
    /\ listing.lines[1].shape = "ok" /\ listing.lines[1].h = 100
    /\ listing.lines[2].shape = "ok" /\ listing.lines[2].w = 101
    /\ Len(ListX11Windows(listing).windows) = 1
    /\ dir = ListX11Windows(listing).windows
    /\ find_window_by_name(<<>>, listing).id = listing.lines[2].id
    /\ FindWindowByName(<<>>, listing).id = listing.lines[2].id

\* The explorer processes the launch tool has started, running or not.
SpawnedByTool == {p \in 1..MaxPids : procs[p].owner = "tool"}

Launching == tool = "qml_explorer_launch"

\* C26: qml_explorer_launch starts a process only when the project path is
\* configured, its probe did not report a running explorer and the executable
\* exists; when the probe reports a running explorer the tool returns success
\* with the pids found and starts nothing.  Hence, while the first explorer the
\* tool started is still running, the tool has started no second one.
C26_AtMostOneExplorer ==
    /\ (Launching /\ Runs("popen") # {})
          => /\ config.qml_gauges_path # ""
             /\ \A i \in Runs("pgrep") : trace[i].status # "found"
             /\ \E i \in Runs("exists") : trace[i].status = "yes"
    /\ (Launching /\ \E i \in Runs("pgrep") : trace[i].status = "found")
          => /\ Runs("popen") = {}
             /\ pc = "done"
             /\ result.kind = "success"
             /\ result.error = "AlreadyRunning"
             /\ result.detail.pids # <<>>
    /\ (SpawnedByTool # {} /\ procs[Min(SpawnedByTool)].alive)
          => Cardinality(SpawnedByTool) <= 1

Killing == tool = "qml_explorer_kill"

\* The signals of the current invocation that were delivered.
Delivered == {i \in Runs("kill") : trace[i].status = "ok"}

\* The kill tool went through its loop and returned its count.
KillCounted == Killing /\ pc = "done" /\ result.error = "Killed"

\* C27: qml_explorer_kill counts the listed pids to which SIGTERM was
\* delivered, so 0 <= killed <= the number of listed pids; a process that is
\* gone when its signal is sent is passed over, the remaining pids are still
\* signalled and the result is success; and when pgrep lists no explorer the
\* result is success with killed = 0 and no signal is sent.
C27_KilledCountsDelivered ==
    /\ (Killing /\ pc \in {"k_loop", "done"})
          => /\ local.killed = Cardinality(Delivered)
             /\ 0 <= local.killed /\ local.killed <= Len(local.pids)
             /\ \A i \in Runs("kill") : trace[i].step = local.pids[i - 1]
    /\ KillCounted
          => /\ result.kind = "success"
             /\ result.detail.killed = Cardinality(Delivered)
             /\ result.detail.killed <= Len(result.detail.pids)
             /\ Cardinality(Runs("kill")) = Len(local.pids)
    /\ (Killing /\ pc = "done"
            /\ (\A i \in Runs("kill") : trace[i].status \in {"ok", "esrch"})
            /\ (\E i \in Runs("pgrep") : trace[i].status # "missing"))
          => result.kind = "success"
    /\ (Killing /\ \E i \in Runs("pgrep") : trace[i].status \in {"none", "error"})
          => /\ pc = "done"
             /\ result.kind = "success"
             /\ result.error = "NoneRunning"
             /\ result.detail.killed = 0
             /\ Runs("kill") = {}

\* C27's case: two explorers were listed, the first was gone when its signal
\* was sent, the second was signalled, and the tool reported one killed.
C27_Witness ==
    /\ KillCounted
    /\ Len(local.pids) = 2
    /\ trace[2].status = "esrch"
    /\ trace[3].status = "ok"
    /\ result.kind = "success"
    /\ result.detail.killed = 1

====
